---- MODULE Spec2Model ----
(***************************************************************************)
(* RuneQuant: the analysis service (zamorak) reading the snapshot store    *)
(* that the ingestion service (grandexchange) fills.                       *)
(*                                                                         *)
(* Numbers are exact: a value is a rational n/d, NaN, +inf or -inf, with   *)
(* the IEEE rules for the operations the code performs on them.  Rounding  *)
(* of binary floating point is not modelled.  None and an absent key are   *)
(* both NaN, as they are in a DataFrame column.                            *)
(***************************************************************************)
EXTENDS Integers, Sequences, FiniteSets, TLC

VARIABLES
    store,               \* the price_data collection: a set of documents
    now,                 \* the wall clock, in ticks
    pc,                  \* "idle", or "done" once main() holds its results
    calls,               \* how the run's store queries and transform went
    non_member_items,    \* the catalog main() loaded
    min_low_volume,      \* the threshold main() passed
    recent_df,           \* the tables of the run, named as in analyze_items
    recent_filtered,     \* recent_df after the catalog restriction
    historical_df,
    historical_filtered, \* historical_df after the catalog restriction
    gold_per_second_df,
    recent_prices,
    merged_df,
    roi_stats,
    volume_ratio_stats,
    result_df,
    escaped,             \* an exception left analyze_items
    client               \* per service, where its get_mongo_client call stands

run == <<calls, non_member_items, min_low_volume, recent_df, recent_filtered,
         historical_df, historical_filtered, gold_per_second_df, recent_prices, merged_df, roi_stats,
         volume_ratio_stats, result_df, escaped>>

vars == <<store, now, pc, run, client>>

----------------------------------------------------------------------------
(* Bounds of the model *)

MaxSnapshots == 2

MaxTicks == 1

MaxFineTicks == 2

TicksPerSecond == 2

(* Program constants *)

\* retries = 5 in get_mongo_client of either service
RETRIES == 5

HOURS == 3

DAYS == 14

----------------------------------------------------------------------------
(* Exact arithmetic on float values *)

Abs(x) == IF x < 0 THEN -x ELSE x

RECURSIVE GCD(_, _)
GCD(a, b) == IF b = 0 THEN a ELSE GCD(b, a % b)

Sign(x) == IF x > 0 THEN 1 ELSE IF x < 0 THEN -1 ELSE 0

NaN == [k |-> "nan", n |-> 0, d |-> 1]

Inf == [k |-> "inf", n |-> 1, d |-> 1]

NegInf == [k |-> "inf", n |-> -1, d |-> 1]

\* the rational n/d in lowest terms with a positive denominator
Reduced(n, d, g) ==
    IF d < 0 THEN [k |-> "num", n |-> (-n) \div g, d |-> (-d) \div g]
    ELSE [k |-> "num", n |-> n \div g, d |-> d \div g]

Rat(n, d) == Reduced(n, d, GCD(Abs(n), Abs(d)))

Num(x) == [k |-> "num", n |-> x, d |-> 1]

IsNaN(a) == a.k = "nan"

IsNum(a) == a.k = "num"

IsInf(a) == a.k = "inf"

Zero == Num(0)

InfOf(s) == IF s > 0 THEN Inf ELSE NegInf

Neg(a) == [a EXCEPT !.n = -a.n]

AddNum(a, b, g) == Rat(a.n * (b.d \div g) + b.n * (a.d \div g), (a.d \div g) * b.d)

Add(a, b) ==
    IF IsNaN(a) \/ IsNaN(b) THEN NaN
    ELSE IF IsInf(a) /\ IsInf(b) THEN (IF a.n = b.n THEN a ELSE NaN)
    ELSE IF IsInf(a) THEN a
    ELSE IF IsInf(b) THEN b
    ELSE AddNum(a, b, GCD(a.d, b.d))

Sub(a, b) == Add(a, Neg(b))

MulNum(a, b, g1, g2) ==
    Rat((a.n \div g1) * (b.n \div g2), (a.d \div g2) * (b.d \div g1))

Mul(a, b) ==
    IF IsNaN(a) \/ IsNaN(b) THEN NaN
    ELSE IF IsInf(a) \/ IsInf(b)
         THEN (IF a.n = 0 \/ b.n = 0 THEN NaN ELSE InfOf(Sign(a.n) * Sign(b.n)))
    ELSE MulNum(a, b, GCD(Abs(a.n), b.d), GCD(Abs(b.n), a.d))

\* true division of two float Series elements: x/0 is +-inf, 0/0 is NaN
Div(a, b) ==
    IF IsNaN(a) \/ IsNaN(b) THEN NaN
    ELSE IF IsInf(a) THEN (IF IsInf(b) THEN NaN
                           ELSE InfOf(a.n * (IF b.n < 0 THEN -1 ELSE 1)))
    ELSE IF IsInf(b) THEN Zero
    ELSE IF b.n = 0 THEN (IF a.n = 0 THEN NaN ELSE InfOf(Sign(a.n)))
    ELSE Mul(a, Rat(b.d, b.n))

GeNum(a, b, g) == a.n * (b.d \div g) >= b.n * (a.d \div g)

\* a >= b as a Series comparison evaluates it: False when either is NaN
Ge(a, b) ==
    IF IsNaN(a) \/ IsNaN(b) THEN FALSE
    ELSE IF IsInf(a) THEN (a.n > 0 \/ (IsInf(b) /\ b.n < 0))
    ELSE IF IsInf(b) THEN b.n < 0
    ELSE GeNum(a, b, GCD(a.d, b.d))

Lt(a, b) ==
    IF IsNaN(a) \/ IsNaN(b) THEN FALSE
    ELSE ~Ge(a, b)

\* Series.replace(old, new) on one element
Replace(a, old, new) == IF a = old THEN new ELSE a

\* Series.fillna(v) on one element
FillNa(a, v) == IF IsNaN(a) THEN v ELSE a

----------------------------------------------------------------------------
(* The snapshot store and the ingestion cycle (grandexchange) *)

\* item ids as the store holds them (strings), in the order groupby sorts them
ItemIds == <<"10", "2">>

Rank(id) == CHOOSE i \in 1..Len(ItemIds) : ItemIds[i] = id

ItemIdSet == {ItemIds[i] : i \in 1..Len(ItemIds)}

\* item_id_to_name of the ingestion service, when mapping.json loads
item_id_to_name == [id \in ItemIdSet |-> IF id = "2" THEN "Cannonball" ELSE "Cannon barrels"]

UnknownItem(id) == IF id = "2" THEN "Unknown Item (2)" ELSE "Unknown Item (10)"

\* what the price API reports for one item in one cycle: the 1h fields and a
\* 5m field (the other 5m fields are carried like it); a side without trades
\* in a window has no price there
Quote(hp, lp, hv, lv, hp5) ==
    [high_price_1h |-> hp, low_price_1h |-> lp, high_volume_1h |-> hv,
     low_volume_1h |-> lv, high_price_5m |-> hp5]

Quotes ==
    { Quote(Num(2), Num(1), Num(1000), Num(500), Num(2)),
      Quote(Num(1), Num(1), Num(5), Num(5), Num(1)),
      Quote(Num(1), Num(0), Num(500), Num(500), Num(1)),
      Quote(NaN, Num(1), Num(0), Num(500), Num(1)),
      Quote(Num(2), Num(1), Num(4), Num(4), NaN),
      Quote(Num(-2), Num(1), Num(499), Num(499), Num(1)),
      Quote(Num(2), Num(1), Num(1000), Num(500), NaN) }

Document(id, name, q, t) ==
    [item_id |-> id, item_name |-> name,
     high_price_1h |-> q.high_price_1h, low_price_1h |-> q.low_price_1h,
     high_volume_1h |-> q.high_volume_1h, low_volume_1h |-> q.low_volume_1h,
     high_price_5m |-> q.high_price_5m, collection_time |-> t]

\* fetch_prices names each item from the mapping, or with the placeholder
NameOf(mapping_ok, id) == IF mapping_ok THEN item_id_to_name[id] ELSE UnknownItem(id)

\* save_price_data_to_mongo: one document per item of formatted_data
save_price_data_to_mongo(db, formatted_data, mapping_ok, t) ==
    db \cup { Document(id, NameOf(mapping_ok, id), formatted_data[id], t) :
                id \in DOMAIN formatted_data }

----------------------------------------------------------------------------
(* The analysis service (zamorak): tables are sets of rows until grouped *)

\* a Python argument left out or None; both are falsy, as 0 is
None == 0

WindowTicks(seconds) == seconds * TicksPerSecond

EmptyFrame == [raised |-> FALSE, df |-> {}]

\* mapping.json as the analysis service may find it: unreadable, or a list of
\* entries of which some lack 'id' or 'members'
Entry(has_id, id, has_members, members, limit) ==
    [has_id |-> has_id, id |-> id, has_members |-> has_members,
     members |-> members, limit |-> limit]

Unreadable == [readable |-> FALSE, items |-> {}]

MappingFiles ==
    { Unreadable,
      [readable |-> TRUE,
       items |-> { Entry(TRUE, 2, TRUE, FALSE, 0), Entry(TRUE, 10, TRUE, TRUE, 70),
                   Entry(FALSE, 0, TRUE, FALSE, 5) }] }

\* str() of a catalog id
Str(i) == IF i = 2 THEN "2" ELSE IF i = 10 THEN "10" ELSE "0"

NonMembers(kept) ==
    [key \in {Str(e.id) : e \in kept} |->
        [limit |-> (CHOOSE e \in kept : Str(e.id) = key).limit]]

\* the dict of non-member items, keyed by str(id); {} when the file fails to load
load_item_mapping(file) ==
    IF ~file.readable THEN <<>>
    ELSE NonMembers({e \in file.items : e.has_members /\ e.members = FALSE /\ e.has_id})

\* the body of get_price_data's try block: the Mongo query
price_query(hours, days, item_id, find_raises, t, db) ==
    IF find_raises THEN [raised |-> TRUE, df |-> {}]
    ELSE [raised |-> FALSE,
          df |-> { r \in db :
                    /\ IF hours # None
                         THEN r.collection_time >= t - WindowTicks(hours * 3600)
                       ELSE IF days # None
                         THEN r.collection_time >= t - WindowTicks(days * 86400)
                       ELSE TRUE
                    /\ (item_id # "" => r.item_id = item_id) }]

\* the except clause of get_price_data
Caught(q) == IF q.raised THEN EmptyFrame ELSE q

\* conn: "ok", "unreachable" (get_mongo_client gave None) or "error" (find raised)
get_price_data(hours, days, item_id, conn, t, db) ==
    IF conn = "unreachable" THEN EmptyFrame
    ELSE Caught(price_query(hours, days, item_id, conn = "error", t, db))

\* df[df['item_id'].astype(str).isin(non_member_items.keys())], when the dict is truthy
restrict_PassAll(df, catalog) == df

restrict(df, catalog) ==
    IF DOMAIN catalog # {} THEN {r \in df : r.item_id \in DOMAIN catalog} ELSE df

\* sum() of a product column over a group: NaN products are skipped
RECURSIVE SumOf(_, _, _), SumFrom(_, _, _, _)
SumOf(rows, f, g) ==
    IF rows = {} THEN Zero
    ELSE SumFrom(CHOOSE x \in rows : TRUE, rows, f, g)

SumFrom(r, rows, f, g) == Add(FillNa(Mul(r[f], r[g]), Zero), SumOf(rows \ {r}, f, g))

MinTime(rows) == CHOOSE t \in {r.collection_time : r \in rows} :
                    \A r \in rows : t <= r.collection_time

MaxTime(rows) == CHOOSE t \in {r.collection_time : r \in rows} :
                    \A r \in rows : t >= r.collection_time

\* (last_date - first_date).dt.total_seconds()
TotalSeconds(ticks) == Rat(ticks, TicksPerSecond)

FloorSpan_NoReplace(span) == span

\* .replace(0, 1) on time_span_seconds
FloorSpan(span) == Replace(span, Zero, Num(1))

GroupRecord(id, name, total_high_value, total_low_value, first_date, last_date, time_span_seconds) ==
    [item_id |-> id, item_name |-> name,
     total_high_value |-> total_high_value, total_low_value |-> total_low_value,
     first_date |-> first_date, last_date |-> last_date,
     time_span_seconds |-> time_span_seconds,
     gold_per_second |->
         Div(Div(Add(total_high_value, total_low_value), Num(2)), time_span_seconds)]

\* one row of `grouped`: a group is the rows of one (item_id, item_name)
GroupRow(id, name, rows) ==
    GroupRecord(id, name,
                SumOf(rows, "high_price_1h", "high_volume_1h"),
                SumOf(rows, "low_price_1h", "low_volume_1h"),
                MinTime(rows), MaxTime(rows),
                FloorSpan(TotalSeconds(MaxTime(rows) - MinTime(rows))))

\* historical_df.groupby(['item_id', 'item_name']).apply(...)
Grouped(df) ==
    { GroupRow(k[1], k[2], {r \in df : r.item_id = k[1] /\ r.item_name = k[2]}) :
        k \in {<<r.item_id, r.item_name>> : r \in df} }

\* the window get_historical_gold_per_second queries: it passes days only, so
\* hours keeps its default
get_historical_data(days, conn, t, db) == get_price_data(HOURS, days, "", conn, t, db)

Estimates(historical, catalog) ==
    [historical_df |-> historical,
     historical_filtered |-> IF historical = {} THEN {} ELSE restrict(historical, catalog),
     df |-> IF historical = {} THEN {} ELSE Grouped(restrict(historical, catalog))]

\* get_historical_gold_per_second; the table it read is kept beside the
\* columns item_id, item_name, gold_per_second it returns
get_historical_gold_per_second(days, catalog, conn, t, db) ==
    Estimates(get_historical_data(days, conn, t, db).df, catalog)

----------------------------------------------------------------------------
(* analyze_items: tables are sequences of rows from the groupby on *)

\* a column the table does not have; reading it raises KeyError
Absent == [k |-> "absent", n |-> 0, d |-> 1]

RECURSIVE SeqSum(_)
SeqSum(vals) == IF vals = <<>> THEN Zero ELSE Add(Head(vals), SeqSum(Tail(vals)))

DropNaN(vals) == SelectSeq(vals, LAMBDA v : ~IsNaN(v))

Column(rows, f) == [i \in 1..Len(rows) |-> rows[i][f]]

Average(xs) == Div(SeqSum(xs), Num(Len(xs)))

\* Series.mean(): NaN entries are skipped
Mean(vals) == Average(DropNaN(vals))

Square(x) == Mul(x, x)

SquaredDeviations(xs, avg) == [i \in 1..Len(xs) |-> Square(Sub(avg, xs[i]))]

MeanSquare(xs, avg, ddof) == Div(SeqSum(SquaredDeviations(xs, avg)), Num(Len(xs) - ddof))

Variance_SampleStd(vals) == MeanSquare(DropNaN(vals), Mean(vals), 1)

\* the square of Series.std(ddof=0): NaN entries are skipped, the divisor is
\* the number of entries left
Variance(vals) == MeanSquare(DropNaN(vals), Mean(vals), 0)

Stats(vals) == [count |-> Len(DropNaN(vals)), mean |-> Mean(vals), var |-> Variance(vals)]

\* a z-score is dev / sqrt(var), kept as the pair; NaN as IEEE division gives it
ZNaN == [k |-> "nan", dev |-> Zero, var |-> Num(1)]

ZZero == [k |-> "z", dev |-> Zero, var |-> Num(1)]

ZDiv(dev, var) ==
    IF IsNaN(dev) \/ IsNaN(var) THEN ZNaN
    ELSE IF var = Zero THEN (IF dev = Zero THEN ZNaN
                             ELSE [k |-> "inf", dev |-> dev, var |-> Zero])
    ELSE [k |-> "z", dev |-> dev, var |-> var]

\* (x - mean) / std
ZScore(x, st) == ZDiv(Sub(x, st.mean), st.var)

ZFillNa_Missing(z) == z

ZFillNa(z) == IF z.k = "nan" THEN ZZero ELSE z

SignOf(sa, sb, l, r) ==
    IF sa >= 0 /\ sb >= 0 THEN (IF sa = 0 /\ sb = 0 THEN 0 ELSE 1)
    ELSE IF sa <= 0 /\ sb <= 0 THEN -1
    ELSE IF l = r THEN 0
    ELSE IF Ge(l, r) THEN sa ELSE sb

\* the sign of a/sqrt(va) + b/sqrt(vb), for finite a, b and va, vb > 0
SignSum(a, va, b, vb) ==
    SignOf(Sign(a.n), Sign(b.n), Mul(Square(a), vb), Mul(Square(b), va))

\* combined_score = roi_zscore + volume_ratio_zscore, kept as the two terms
CombinedScore(zr, zv) == [a |-> zr, b |-> zv]

PickVar(z1, z2) == IF z1.dev # Zero THEN z1.var ELSE z2.var

\* the sign of c1 - c2 for two combined scores of one table
CmpScore(c1, c2) ==
    SignSum(Sub(c1.a.dev, c2.a.dev), PickVar(c1.a, c2.a),
            Sub(c1.b.dev, c2.b.dev), PickVar(c1.b, c2.b))

LatestOf(rows) == CHOOSE r \in rows : \A q \in rows : q.collection_time <= r.collection_time

LastOf(valid, f) == IF valid = {} THEN NaN ELSE LatestOf(valid)[f]

\* groupby('item_id').last() on one column: the last non-null entry in time order
LastValid(rows, f) == LastOf({r \in rows : ~IsNaN(r[f])}, f)

LatestRow(rows) == LatestOf(rows)

\* a row of recent_prices with the columns of lines 206-212; the columns
\* added later are not there yet
PriceRecord(id, latest, hp, lp, hv, lv, hp5, limit) ==
    [item_id |-> id,
     item_name |-> latest.item_name,
     high_price_1h |-> hp, low_price_1h |-> lp,
     high_volume_1h |-> hv, low_volume_1h |-> lv,
     high_price_5m |-> hp5,
     collection_time |-> latest.collection_time,
     item_limit |-> limit,
     sell_total |-> hp, buy_total |-> lp, tax_amount |-> Mul(hp, Rat(1, 100)),
     roi |-> Div(Sub(Sub(hp, Mul(hp, Rat(1, 100))), lp), lp),
     volume_ratio |-> Div(hv, Replace(lv, Zero, Num(1))),
     gold_per_second |-> Absent, roi_zscore |-> Absent,
     volume_ratio_zscore |-> Absent, combined_score |-> Absent,
     max_trades_per_hour |-> Absent, profit_per_trade |-> Absent,
     expected_profit_per_hour |-> Absent, trades_per_limit |-> Absent,
     profit_per_limit |-> Absent]

\* non_member_items.get(x, {}).get('limit', 0)
ItemLimit(catalog, id) == IF id \in DOMAIN catalog THEN Num(catalog[id].limit) ELSE Zero

\* one row of recent_prices: the group's last valid entry of every column
RecentPriceRow(id, rows, catalog) ==
    PriceRecord(id, LatestRow(rows),
                LastValid(rows, "high_price_1h"), LastValid(rows, "low_price_1h"),
                LastValid(rows, "high_volume_1h"), LastValid(rows, "low_volume_1h"),
                LastValid(rows, "high_price_5m"),
                IF DOMAIN catalog # {} THEN ItemLimit(catalog, id) ELSE Absent)

GroupRows(df, present, catalog) ==
    [i \in 1..Len(present) |->
        RecentPriceRow(present[i], {r \in df : r.item_id = present[i]}, catalog)]

\* recent_prices: one row per item_id, in the order of the group keys
RecentPrices(df, catalog) ==
    GroupRows(df, SelectSeq(ItemIds, LAMBDA id : \E r \in df : r.item_id = id), catalog)

Joined(hit) == IF hit = {} THEN NaN ELSE (CHOOSE g \in hit : TRUE).gold_per_second

\* pd.merge(recent_prices, gold_per_second_df, on=['item_id', 'item_name'],
\* how='left') and the fillna(0) of the joined column
Merge(prices, gps_df) ==
    [i \in 1..Len(prices) |->
        [prices[i] EXCEPT !.gold_per_second =
            FillNa(Joined({g \in gps_df : g.item_id = prices[i].item_id
                                          /\ g.item_name = prices[i].item_name}), Zero)]]

Viable_Exclusive(rows, min_lv) ==
    SelectSeq(rows, LAMBDA r : Ge(r.low_volume_1h, Num(min_lv + 1)))

\* merged_df[merged_df['low_volume_1h'] >= min_low_volume]
Viable(rows, min_lv) == SelectSeq(rows, LAMBDA r : Ge(r.low_volume_1h, Num(min_lv)))

WithScores(row, zr, zv) ==
    [row EXCEPT !.roi_zscore = zr, !.volume_ratio_zscore = zv,
                !.combined_score = CombinedScore(zr, zv)]

ScoredWith(rows, roi_st, vr_st) ==
    [i \in 1..Len(rows) |->
        WithScores(rows[i], ZFillNa(ZScore(rows[i].roi, roi_st)),
                   ZFillNa(ZScore(rows[i].volume_ratio, vr_st)))]

\* the z-score columns and combined_score, over the population `rows`
Scored(rows) ==
    ScoredWith(rows, Stats(Column(rows, "roi")), Stats(Column(rows, "volume_ratio")))

\* merged_df[merged_df['gold_per_second'] >= 0]
ThroughputGate(rows) == SelectSeq(rows, LAMBDA r : Ge(r.gold_per_second, Zero))

\* the columns that hold numbers; the others are never null
NumericColumns ==
    {"high_price_1h", "low_price_1h", "high_volume_1h", "low_volume_1h",
     "high_price_5m", "item_limit", "sell_total", "buy_total", "tax_amount",
     "roi", "volume_ratio", "gold_per_second"}

\* DataFrame.dropna(): a row goes when any of its columns is NaN; inf stays
DropNa(rows) == SelectSeq(rows, LAMBDA r : \A f \in NumericColumns : ~IsNaN(r[f]))

Perms(n) == {p \in [1..n -> 1..n] : \A i, j \in 1..n : p[i] = p[j] => i = j}

SortValues_Ascending(rows) ==
    { [i \in 1..Len(rows) |-> rows[p[i]]] : p \in
        { q \in Perms(Len(rows)) :
            \A i, j \in 1..Len(rows) :
                i < j => CmpScore(rows[q[i]].combined_score, rows[q[j]].combined_score) <= 0 } }

\* sort_values('combined_score', ascending=False): the default kind is
\* quicksort, which leaves the order of equal keys open
SortValues(rows) ==
    { [i \in 1..Len(rows) |-> rows[p[i]]] : p \in
        { q \in Perms(Len(rows)) :
            \A i, j \in 1..Len(rows) :
                i < j => CmpScore(rows[q[i]].combined_score, rows[q[j]].combined_score) >= 0 } }

\* Series.clip(lower=b) on one element
ClipLower(a, b) == IF Lt(a, b) THEN b ELSE a

WithProfit(r, ppt, tpl) ==
    [r EXCEPT !.max_trades_per_hour = r.low_volume_1h,
              !.profit_per_trade = ppt,
              !.expected_profit_per_hour = Mul(ppt, r.low_volume_1h),
              !.trades_per_limit = tpl,
              !.profit_per_limit = IF tpl = Absent THEN Absent ELSE Mul(ppt, tpl)]

\* the profit columns added after the sort
Profit(rows) ==
    [i \in 1..Len(rows) |->
        WithProfit(rows[i],
                   Sub(Mul(rows[i].high_price_1h, Rat(99, 100)), rows[i].low_price_1h),
                   IF rows[i].item_limit = Absent THEN Absent
                   ELSE ClipLower(rows[i].item_limit, Num(1)))]

NoStats == [count |-> 0, mean |-> NaN, var |-> NaN]

\* what a run leaves when it stops before or in the transform
Stopped(raised, df) ==
    [raised |-> raised, recent_df |-> df, recent_filtered |-> {},
     historical_df |-> {}, historical_filtered |-> {}, gold_per_second_df |-> {}, recent_prices |-> <<>>, merged_df |-> <<>>,
     roi_stats |-> NoStats, volume_ratio_stats |-> NoStats, results |-> {<<>>}]

\* lines 227-261: from the viability filter on; reading gold_per_second of a
\* table without the column raises KeyError
Ranked(df, kept, prices, est, viable) ==
    [raised |-> est.df = {},
     recent_df |-> df,
     recent_filtered |-> kept,
     historical_df |-> est.historical_df,
     historical_filtered |-> est.historical_filtered,
     gold_per_second_df |-> est.df,
     recent_prices |-> prices,
     merged_df |-> Scored(viable),
     roi_stats |-> Stats(Column(viable, "roi")),
     volume_ratio_stats |-> Stats(Column(viable, "volume_ratio")),
     results |-> IF est.df = {} THEN {<<>>}
                 ELSE {Profit(o) : o \in SortValues(DropNa(ThroughputGate(Scored(viable))))}]

\* lines 214-228: the join with the estimates and the viability filter
Join(df, kept, prices, est, min_lv) ==
    Ranked(df, kept, prices, est,
          Viable(IF est.df = {} THEN prices ELSE Merge(prices, est.df), min_lv))

\* the try block of analyze_items, from the non-empty recent_df on; t is the
\* time of the historical query, fault a step of the transform raising
analyze_try(df, min_lv, catalog, conn, t, db, fault) ==
    IF fault THEN Stopped(TRUE, df)
    ELSE Join(df, restrict(df, catalog), RecentPrices(restrict(df, catalog), catalog),
              get_historical_gold_per_second(DAYS, catalog, conn, t, db), min_lv)

analyze_except_Reraise(a) == [a EXCEPT !.results = {<<>>}]

\* the except clause of analyze_items: log and return an empty DataFrame
analyze_except(a) == [a EXCEPT !.raised = FALSE, !.results = {<<>>}]

Handled(a) == IF a.raised THEN analyze_except(a) ELSE a

Analyzed(recent, min_lv, catalog, conn2, t2, db, fault) ==
    IF recent.raised \/ recent.df = {} THEN Stopped(recent.raised, recent.df)
    ELSE Handled(analyze_try(recent.df, min_lv, catalog, conn2, t2, db, fault))

\* analyze_items(hours, min_low_volume, non_member_items)
analyze_items(hours, min_lv, catalog, conn1, conn2, t1, t2, db, fault) ==
    Analyzed(get_price_data(hours, None, "", conn1, t1, db),
             min_lv, catalog, conn2, t2, db, fault)

----------------------------------------------------------------------------
(* The state machine *)

\* the length of the recent window, in ticks
Jump == WindowTicks(HOURS * 3600)

\* Spec: every kind of quote, collected within a few ticks
Clock == 0..MaxTicks

TickSteps == {1}

Delays == {0}

\* SpecTime: two kinds of quote, collected up to a recent window apart
ClockT == {f + j * Jump : f \in 0..MaxFineTicks, j \in {0, 1}}

TickStepsT == {1, Jump}

DelaysT == {0, 1}

QuotesT ==
    { Quote(Num(2), Num(1), Num(100), Num(100), Num(2)),
      Quote(Num(1), Num(1), Num(5), Num(5), Num(1)) }

\* SpecNames: two kinds of quote, named from mapping.json in one cycle and
\* with the placeholder in another
QuotesN ==
    { Quote(Num(2), Num(1), Num(1000), Num(500), Num(2)),
      Quote(Num(1), Num(1), Num(5), Num(5), Num(1)) }

MinLowVolumes == {5, 500}

StoreOutcomes == {"ok", "unreachable", "error"}

NoCalls == [recent |-> "none", historical |-> "none", fault |-> FALSE]

NoRun ==
    /\ calls = NoCalls
    /\ non_member_items = <<>>
    /\ min_low_volume = 0
    /\ recent_df = {}
    /\ recent_filtered = {}
    /\ historical_df = {}
    /\ historical_filtered = {}
    /\ gold_per_second_df = {}
    /\ recent_prices = <<>>
    /\ merged_df = <<>>
    /\ roi_stats = NoStats
    /\ volume_ratio_stats = NoStats
    /\ result_df = <<>>
    /\ escaped = FALSE

\* the two services; each has its own get_mongo_client
Services == {"zamorak", "grandexchange"}

\* a call of get_mongo_client at its first loop test: `at` is the position in
\* the function, `result` what it returned once at = "return"
NotCalled ==
    [at |-> "while", retries |-> RETRIES, attempts |-> 0, failed |-> 0,
     sleeps |-> 0, result |-> "pending"]

Init ==
    /\ store = {}
    /\ now = 0
    /\ pc = "idle"
    /\ NoRun
    /\ client = [s \in Services |-> NotCalled]

Tick(d, clock) ==
    /\ pc = "idle"
    /\ now + d \in clock
    /\ now' = now + d
    /\ UNCHANGED <<store, pc, run, client>>

\* one ingestion cycle: fetch_prices stores a document for every item the
\* price API reported
FetchPrices(formatted_data, mapping_ok) ==
    /\ pc = "idle"
    /\ DOMAIN formatted_data # {}
    /\ Cardinality(store) + Cardinality(DOMAIN formatted_data) <= MaxSnapshots
    /\ \A r \in store : r.collection_time = now => r.item_id \notin DOMAIN formatted_data
    /\ store' = save_price_data_to_mongo(store, formatted_data, mapping_ok, now)
    /\ UNCHANGED <<now, pc, run, client>>

\* main(): load the catalog, then analyze_items(hours=3, ...); `delay` ticks
\* pass between the recent and the historical query
Main(file, min_lv, conn1, conn2, delay, fault, clock) ==
    /\ pc = "idle"
    /\ (conn1 # "ok" \/ fault) => (conn2 = "ok" /\ delay = 0)
    /\ conn1 # "ok" => ~fault
    /\ conn2 # "ok" => delay = 0
    /\ now + delay \in clock
    /\ \E catalog \in {load_item_mapping(file)} :
       \E a \in {analyze_items(HOURS, min_lv, catalog, conn1, conn2, now, now + delay,
                               store, fault)} :
           /\ non_member_items' = catalog
           /\ min_low_volume' = min_lv
           /\ calls' = [recent |-> conn1,
                        historical |-> IF conn1 = "ok" /\ a.recent_df # {} /\ ~fault
                                       THEN conn2 ELSE "none",
                        fault |-> fault]
           /\ recent_df' = a.recent_df
           /\ recent_filtered' = a.recent_filtered
           /\ historical_df' = a.historical_df
           /\ historical_filtered' = a.historical_filtered
           /\ gold_per_second_df' = a.gold_per_second_df
           /\ recent_prices' = a.recent_prices
           /\ merged_df' = a.merged_df
           /\ roi_stats' = a.roi_stats
           /\ volume_ratio_stats' = a.volume_ratio_stats
           /\ result_df' \in a.results
           /\ escaped' = a.raised
    /\ now' = now + delay
    /\ pc' = "done"
    /\ UNCHANGED <<store, client>>

\* the process ends and its tables with it
Exit ==
    /\ pc = "done"
    /\ pc' = "idle"
    /\ calls' = NoCalls
    /\ non_member_items' = <<>>
    /\ min_low_volume' = 0
    /\ recent_df' = {}
    /\ recent_filtered' = {}
    /\ historical_df' = {}
    /\ historical_filtered' = {}
    /\ gold_per_second_df' = {}
    /\ recent_prices' = <<>>
    /\ merged_df' = <<>>
    /\ roi_stats' = NoStats
    /\ volume_ratio_stats' = NoStats
    /\ result_df' = <<>>
    /\ escaped' = FALSE
    /\ UNCHANGED <<store, now, client>>

Step(steps, clock, quotes, mappings, delays) ==
    \/ \E d \in steps : Tick(d, clock)
    \/ /\ pc = "idle"
       /\ \E ids \in SUBSET ItemIdSet, mapping_ok \in mappings :
             \E formatted_data \in [ids -> quotes] : FetchPrices(formatted_data, mapping_ok)
    \/ /\ pc = "idle"
       /\ \E file \in MappingFiles, min_lv \in MinLowVolumes,
             conn1, conn2 \in StoreOutcomes, delay \in delays, fault \in BOOLEAN :
             Main(file, min_lv, conn1, conn2, delay, fault, clock)
    \/ Exit

Next == Step(TickSteps, Clock, Quotes, {TRUE}, Delays)

Spec == Init /\ [][Next]_vars

NextTime == Step(TickStepsT, ClockT, QuotesT, {TRUE}, DelaysT)

SpecTime == Init /\ [][NextTime]_vars

\* while retries > 0: enter the try block, or leave the loop and return None
While(s) ==
    /\ client[s].at = "while"
    /\ client' = [client EXCEPT ![s] =
                     IF client[s].retries > 0
                     THEN [client[s] EXCEPT !.at = "try"]
                     ELSE [client[s] EXCEPT !.at = "return", !.result = "None"]]
    /\ UNCHANGED <<store, now, pc, run>>

\* the try block: MongoClient(...) and the ping; it returns the client or raises
Try(s, ping_ok) ==
    /\ client[s].at = "try"
    /\ client' = [client EXCEPT ![s] =
                     IF ping_ok
                     THEN [client[s] EXCEPT !.attempts = @ + 1,
                                            !.at = "return", !.result = "client"]
                     ELSE [client[s] EXCEPT !.attempts = @ + 1, !.failed = @ + 1,
                                            !.at = "except"]]
    /\ UNCHANGED <<store, now, pc, run>>

Sleeps_AfterEveryFailure(s, retries) == TRUE

\* whether the except block sleeps, `retries` being the count it has just
\* decremented: zamorak sleeps `if retries > 0`, grandexchange always
Sleeps(s, retries) == IF s = "zamorak" THEN retries > 0 ELSE TRUE

\* the except block: retries -= 1, the warning, the sleep
Except(s) ==
    /\ client[s].at = "except"
    /\ client' = [client EXCEPT ![s] =
                     [client[s] EXCEPT !.retries = @ - 1,
                                       !.sleeps = IF Sleeps(s, client[s].retries - 1)
                                                  THEN @ + 1 ELSE @,
                                       !.at = "while"]]
    /\ UNCHANGED <<store, now, pc, run>>

get_mongo_client(s) ==
    \/ While(s)
    \/ \E ping_ok \in BOOLEAN : Try(s, ping_ok)
    \/ Except(s)

NextConnect == \E s \in Services : get_mongo_client(s)

\* each service is a running process: a call that can take a step takes it
SpecConnect ==
    Init /\ [][NextConnect]_vars /\ \A s \in Services : WF_vars(get_mongo_client(s))

NextNames == Step(TickSteps, Clock, QuotesN, BOOLEAN, Delays)

SpecNames == Init /\ [][NextNames]_vars

----------------------------------------------------------------------------
(* Properties *)

Done == pc = "done"

\* the run reached the historical query and the store answered it
HistoricalAnswered == Done /\ calls.historical = "ok"

\* C1: a query with only a day window returns exactly the stored records
\* collected within the last `days` days; so the Throughput Estimator's input
\* is the 14-day window.
C1_DayWindowQuery ==
    HistoricalAnswered =>
        historical_df = {r \in store : r.collection_time >= now - DAYS * 86400 * TicksPerSecond}

\* the documents of one item among those the Scorer groups
DocsOf(id) == {r \in restrict(recent_df, non_member_items) : r.item_id = id}

Newest(rows) == CHOOSE r \in rows : \A q \in rows : q.collection_time <= r.collection_time

RawFields ==
    {"item_name", "high_price_1h", "low_price_1h", "high_volume_1h", "low_volume_1h",
     "high_price_5m", "collection_time"}

\* C2: the row the Scorer works on is the item's single snapshot with the
\* greatest collection_time: every field, an absent one included, comes from
\* that snapshot.
C2_RowIsLatestSnapshot ==
    Done => \A i \in 1..Len(recent_prices) :
                \A f \in RawFields :
                    recent_prices[i][f] = Newest(DocsOf(recent_prices[i].item_id))[f]

\* C3: a latest snapshot with buy_total = 0 never appears in the ranked
\* output, and no output row carries an infinite roi.
C3_NoZeroBuyNoInfiniteRoi ==
    Done => \A i \in 1..Len(result_df) :
                /\ result_df[i].buy_total # Zero
                /\ ~IsInf(result_df[i].roi)

\* the Scorer's transform ran to its end without a step of it failing
TransformRan == Done /\ calls.recent = "ok" /\ ~calls.fault /\ recent_df # {}

HasEstimate(id) == \E g \in gold_per_second_df : g.item_id = id

Defined(row) ==
    \A f \in {"high_price_1h", "low_price_1h", "high_volume_1h", "low_volume_1h",
               "high_price_5m", "roi", "volume_ratio"} : ~IsNaN(row[f])

\* C4: an item without a throughput estimate counts as gold_per_second = 0 and
\* is not excluded for it: viable and without undefined values, it is in the
\* output; also when the estimator returned no rows at all.
C4_MissingThroughputIsZero ==
    TransformRan =>
        \A i \in 1..Len(recent_prices) :
            LET p == recent_prices[i]
            IN  (~HasEstimate(p.item_id) /\ Ge(p.low_volume_1h, Num(min_low_volume))
                 /\ Defined(p))
                => \E j \in 1..Len(result_df) :
                      /\ result_df[j].item_id = p.item_id
                      /\ result_df[j].gold_per_second = Zero

\* the group of `grouped` row g, read from the estimator's input
GroupDocs(g) ==
    {r \in restrict(historical_df, non_member_items) :
        r.item_id = g.item_id /\ r.item_name = g.item_name}

SpanTicks(g) ==
    LET times == {r.collection_time : r \in GroupDocs(g)}
    IN  (CHOOSE t \in times : \A u \in times : u <= t)
        - (CHOOSE t \in times : \A u \in times : u >= t)

\* gold_per_second * 2 * time_span = total_high_value + total_low_value
RateFormula(g) ==
    Mul(Mul(g.gold_per_second, Num(2)), g.time_span_seconds)
        = Add(g.total_high_value, g.total_low_value)

\* C5 as stated: the divisor is max(span in seconds, 1), so never below one
\* second, and gold_per_second = (total_high_value + total_low_value) / 2 / time_span.
C5_SpanAtLeastOneSecond ==
    Done => \A g \in gold_per_second_df :
                /\ g.time_span_seconds =
                       (IF SpanTicks(g) < TicksPerSecond THEN Num(1)
                        ELSE Rat(SpanTicks(g), TicksPerSecond))
                /\ RateFormula(g)

\* C5 as the code has it: the divisor is the span in seconds, and 1 where the
\* span is exactly 0; it is never 0, and a span between 0 and 1 second stays;
\* gold_per_second = (total_high_value + total_low_value) / 2 / time_span.
C5_ZeroSpanReplaced ==
    Done => \A g \in gold_per_second_df :
                /\ g.time_span_seconds =
                       (IF SpanTicks(g) = 0 THEN Num(1)
                        ELSE Rat(SpanTicks(g), TicksPerSecond))
                /\ g.time_span_seconds # Zero
                /\ IsNum(g.gold_per_second)
                /\ RateFormula(g)

\* a group of two observations less than a second apart: the divisor is
\* that span, below 1, and the rate above the halved total
C5_Witness ==
    /\ Done
    /\ \E g \in gold_per_second_df :
          /\ SpanTicks(g) > 0 /\ SpanTicks(g) < TicksPerSecond
          /\ Lt(g.time_span_seconds, Num(1))
          /\ Lt(Div(Add(g.total_high_value, g.total_low_value), Num(2)), g.gold_per_second)

\* the example of a single observation: totals 200 and 100 give 150
C5_SingleObservation ==
    /\ Done
    /\ \E g \in gold_per_second_df :
          /\ SpanTicks(g) = 0
          /\ g.total_high_value = Num(200) /\ g.total_low_value = Num(100)
          /\ g.gold_per_second = Num(150)

\* the rows of recent_prices that pass the viability filter
ViableRows == {i \in 1..Len(recent_prices) :
                 Ge(recent_prices[i].low_volume_1h, Num(min_low_volume))}

RECURSIVE SumOver(_, _)
SumOver(idx, val) ==
    IF idx = {} THEN Zero
    ELSE LET i == CHOOSE x \in idx : TRUE
         IN  Add(val[i], SumOver(idx \ {i}, val))

\* st holds count, mean and variance (divisor: the count) of column f over
\* the rows idx of recent_prices
StatsAreOver(st, idx, f) ==
    /\ st.count = Cardinality(idx)
    /\ idx # {} =>
          /\ Mul(st.mean, Num(st.count)) = SumOver(idx, [i \in idx |-> recent_prices[i][f]])
          /\ Mul(st.var, Num(st.count)) =
                SumOver(idx, [i \in idx |-> Mul(Sub(recent_prices[i][f], st.mean),
                                                Sub(recent_prices[i][f], st.mean))])

\* every row of the scored table is z-scored against st
ScoredAgainst(st, f, zf) ==
    \A i \in 1..Len(merged_df) :
        merged_df[i][zf] = ZFillNa(ZScore(merged_df[i][f], st))

\* C6 as stated: mean and population standard deviation are taken over exactly
\* the rows that passed the viability filter, N counting every such row.
C6_StatsOverAllViable ==
    TransformRan =>
        /\ StatsAreOver(roi_stats, ViableRows, "roi")
        /\ StatsAreOver(volume_ratio_stats, ViableRows, "volume_ratio")

WithValue(idx, f) == {i \in idx : ~IsNaN(recent_prices[i][f])}

\* C6 as the code has it: the statistics are over the rows that passed the
\* viability filter and have a value in the column; N counts those, rows the
\* throughput gate or the undefined-value filter removes later included, and
\* no row the viability filter removed.
C6_StatsOverViableWithValue ==
    TransformRan =>
        /\ StatsAreOver(roi_stats, WithValue(ViableRows, "roi"), "roi")
        /\ StatsAreOver(volume_ratio_stats, WithValue(ViableRows, "volume_ratio"),
                        "volume_ratio")
        /\ ScoredAgainst(roi_stats, "roi", "roi_zscore")
        /\ ScoredAgainst(volume_ratio_stats, "volume_ratio", "volume_ratio_zscore")
        /\ Len(merged_df) = Cardinality(ViableRows)

InResult(id) == \E j \in 1..Len(result_df) : result_df[j].item_id = id

\* two rois of different value are counted, one of a row the later filters
\* remove, while a third row fell to the viability filter or has no roi
C6_Witness ==
    /\ TransformRan
    /\ calls.historical = "ok"
    /\ roi_stats.count = 2
    /\ roi_stats.var # Zero /\ IsNum(roi_stats.var)
    /\ \E i \in ViableRows : ~InResult(recent_prices[i].item_id)
                               /\ ~IsNaN(recent_prices[i].roi)

IsZeroZ(z) == z.k = "z" /\ z.dev = Zero

ZeroScore == CombinedScore(ZZero, ZZero)

\* C7: when the population standard deviation of roi (of volume_ratio) over
\* the viable rows is zero, as when one row passes, every row's z-score of it
\* is exactly 0, and combined_score is 0 when both are.
C7_DegenerateZScoreIsZero ==
    TransformRan =>
        /\ roi_stats.var = Zero =>
              \A i \in 1..Len(merged_df) : IsZeroZ(merged_df[i].roi_zscore)
        /\ volume_ratio_stats.var = Zero =>
              \A i \in 1..Len(merged_df) : IsZeroZ(merged_df[i].volume_ratio_zscore)
        /\ Len(merged_df) = 1 =>
              /\ IsZeroZ(merged_df[1].roi_zscore)
              /\ IsZeroZ(merged_df[1].volume_ratio_zscore)
        /\ (roi_stats.var = Zero /\ volume_ratio_stats.var = Zero) =>
              \A i \in 1..Len(merged_df) :
                  CmpScore(merged_df[i].combined_score, ZeroScore) = 0

\* two rows share their roi and differ in volume_ratio
C7_Witness ==
    /\ TransformRan
    /\ Len(merged_df) = 2
    /\ roi_stats.var = Zero
    /\ volume_ratio_stats.var # Zero
    /\ ~IsZeroZ(merged_df[1].volume_ratio_zscore)

\* C8: the viability filter is inclusive: no output row has low_volume_1h =
\* min_low_volume - 1, every output row has low_volume_1h >= min_low_volume,
\* and a row with low_volume_1h = min_low_volume passes the filter.
C8_ViabilityInclusive ==
    TransformRan =>
        /\ \A j \in 1..Len(result_df) :
              /\ result_df[j].low_volume_1h # Num(min_low_volume - 1)
              /\ Ge(result_df[j].low_volume_1h, Num(min_low_volume))
        /\ \A i \in 1..Len(recent_prices) :
              recent_prices[i].low_volume_1h = Num(min_low_volume)
              => \E j \in 1..Len(merged_df) : merged_df[j].item_id = recent_prices[i].item_id
        /\ \A j \in 1..Len(merged_df) : Ge(merged_df[j].low_volume_1h, Num(min_low_volume))

\* one row sits on the threshold and is in the output, another one below it
C8_Witness ==
    /\ TransformRan
    /\ \E i \in 1..Len(recent_prices) :
          /\ recent_prices[i].low_volume_1h = Num(min_low_volume)
          /\ InResult(recent_prices[i].item_id)
    /\ \E i \in 1..Len(recent_prices) :
          recent_prices[i].low_volume_1h = Num(min_low_volume - 1)

NonIncreasing ==
    \A i, j \in 1..Len(result_df) :
        i < j => CmpScore(result_df[i].combined_score, result_df[j].combined_score) >= 0

\* the table before the sort is in the order of the group keys
TiesKeepInputOrder ==
    \A i, j \in 1..Len(result_df) :
        (i < j /\ CmpScore(result_df[i].combined_score, result_df[j].combined_score) = 0)
        => Rank(result_df[i].item_id) < Rank(result_df[j].item_id)

\* C9 as stated: the output is ordered by combined_score non-increasing, and
\* rows of equal combined_score keep the order they had before the sort.
C9_StableDescending == Done => (NonIncreasing /\ TiesKeepInputOrder)

\* C9 as the code has it: the output is ordered by combined_score
\* non-increasing and holds each surviving row once; the order of rows of
\* equal combined_score is open.
C9_Descending ==
    Done =>
        /\ NonIncreasing
        /\ \A i, j \in 1..Len(result_df) :
              result_df[i].item_id = result_df[j].item_id => i = j
        /\ \A j \in 1..Len(result_df) :
              \E i \in 1..Len(merged_df) :
                  /\ merged_df[i].item_id = result_df[j].item_id
                  /\ merged_df[i].combined_score = result_df[j].combined_score

\* the second group key scores above the first and is ranked first
C9_Witness ==
    /\ Done
    /\ Len(result_df) = 2
    /\ CmpScore(result_df[1].combined_score, result_df[2].combined_score) > 0
    /\ Rank(result_df[1].item_id) > Rank(result_df[2].item_id)

\* C10: data-unavailable never escapes as an exception: get_price_data gives
\* an empty table when the connection fails or the query raises, and
\* analyze_items gives an empty table when the recent table is empty, becomes
\* empty by the catalog restriction or the viability filter, or a step raises.
C10_NoExceptionEscapes ==
    Done =>
        /\ ~escaped
        /\ calls.recent # "ok" => recent_df = {}
        /\ calls.historical \in {"unreachable", "error"} => historical_df = {}
        /\ recent_df = {} => result_df = <<>>
        /\ restrict(recent_df, non_member_items) = {} => result_df = <<>>
        /\ merged_df = <<>> => result_df = <<>>
        /\ calls.fault => result_df = <<>>

\* the store answered and every record of it fell to the catalog restriction
C10_Witness ==
    /\ Done
    /\ calls.recent = "ok" /\ calls.historical = "ok"
    /\ recent_df # {}
    /\ restrict(recent_df, non_member_items) = {}
    /\ result_df = <<>>

\* the rows of a table the catalog lets through: all of them under an empty
\* catalog, else those whose item_id is one of its keys
Admitted(df) ==
    IF DOMAIN non_member_items = {} THEN df
    ELSE {r \in df : \E key \in DOMAIN non_member_items : r.item_id = key}

\* C11: the catalog restriction keeps exactly the rows whose item_id, as a
\* string, is a key of the catalog when the catalog is non-empty, and every row
\* unchanged when it is empty (also after a failed load); the Scorer and the
\* Throughput Estimator apply the same rule.
C11_CatalogRestriction ==
    TransformRan =>
        /\ recent_filtered = Admitted(recent_df)
        /\ historical_df # {} => historical_filtered = Admitted(historical_df)

\* under a loaded catalog both tables lose a row and keep another
C11_Witness ==
    /\ TransformRan
    /\ DOMAIN non_member_items # {}
    /\ recent_filtered # {} /\ recent_filtered # recent_df
    /\ historical_filtered # {} /\ historical_filtered # historical_df

\* mapping.json failed to load and both tables pass whole
C11_EmptyCatalog ==
    /\ TransformRan
    /\ DOMAIN non_member_items = {}
    /\ recent_filtered = recent_df
    /\ historical_df # {} /\ historical_filtered = historical_df

\* the estimates the Throughput Estimator returned for one item_id
EstimatesOf(id) == {g \in gold_per_second_df : g.item_id = id}

\* the joined table holds one row per item_id, whose gold_per_second is the
\* item's estimate
KeyedOnItemId(rows) ==
    /\ \A i, j \in 1..Len(rows) : rows[i].item_id = rows[j].item_id => i = j
    /\ \A i \in 1..Len(rows) : \A g \in EstimatesOf(rows[i].item_id) :
          rows[i].gold_per_second = g.gold_per_second

\* C12: the throughput join is keyed on item_id: an output row of an item
\* with a snapshot in the historical window carries the estimator's value for
\* that item_id, whatever item_name the snapshots hold, and no item_id has
\* more than one output row.
C12_JoinKeyedOnItemId ==
    TransformRan => (KeyedOnItemId(merged_df) /\ KeyedOnItemId(result_df))

Returned(s) == client[s].at = "return"

\* what holds of a call of get_mongo_client at every point
ConnectSafety(s) ==
    /\ client[s].attempts <= RETRIES
    /\ client[s].result = "client" =>
          Returned(s) /\ client[s].attempts = client[s].failed + 1
    /\ (Returned(s) /\ client[s].result = "None") =>
          client[s].attempts = RETRIES /\ client[s].failed = RETRIES
    /\ Returned(s) => client[s].result \in {"client", "None"}
    /\ (s = "zamorak" /\ client[s].at # "except") =>
          client[s].sleeps = (IF client[s].failed = RETRIES THEN RETRIES - 1
                              ELSE client[s].failed)
    /\ (s = "grandexchange" /\ client[s].at # "except") =>
          client[s].sleeps = client[s].failed

\* C13: get_mongo_client always terminates: at most 5 attempts, the client
\* returned at the first successful ping with no attempt after it, None after
\* exactly 5 failed attempts; the analysis service waits between attempts but
\* not after the fifth failure, the ingestion service after every failure.
C13_ConnectTerminates ==
    /\ [](\A s \in Services : ConnectSafety(s))
    /\ \A s \in Services : <>Returned(s)

\* both services gave up: five failed attempts each, four waits in the
\* analysis service and five in the ingestion service
C13_Witness ==
    /\ \A s \in Services : Returned(s) /\ client[s].result = "None"
                              /\ client[s].attempts = RETRIES
    /\ client["zamorak"].sleeps = RETRIES - 1
    /\ client["grandexchange"].sleeps = RETRIES

\* a ping that succeeds after two failures ends the call at its third attempt
C13_FirstSuccess ==
    \E s \in Services :
        /\ Returned(s) /\ client[s].result = "client"
        /\ client[s].failed = 2 /\ client[s].attempts = 3 /\ client[s].sleeps = 2

====
